---- MODULE Spec2Model ----
(***************************************************************************)
(* Model of the gastown swarm branch-lifecycle controller                  *)
(* (internal/swarm/integration.go): per-swarm file lock, the lifecycle     *)
(* operations CreateIntegrationBranch, MergeToIntegration, LandToMain,     *)
(* AbortMerge and CleanupBranches, and the fetch retry loop, run by        *)
(* concurrent callers against one shared checkout.  Every git command is   *)
(* one atomic step of the caller that issues it.  The lock itself is       *)
(* exercised by the goroutines of the package's lock tests (SpecLock).     *)
(***************************************************************************)
EXTENDS Integers, Sequences, FiniteSets, TLC

(***************************************************************************)
(* Bounds of the model.                                                    *)
(***************************************************************************)
\* number of goroutines of the lock test that contend for the swarm locks
NumGoroutines == 3
\* total number of operation invocations in one behaviour
MaxCalls == 2
\* largest number of unmerged paths a conflicting merge leaves behind
MaxUnmerged == 1

\* the two callers whose lifecycle operations run concurrently on the
\* shared checkout
Callers == {"c1", "c2"}
\* the goroutines of TestLockSwarmMutualExclusion
Goroutines == 1..NumGoroutines
\* the swarm identifiers the lock tests lock
TestSwarms == {"swarm-a", "swarm-b"}

(***************************************************************************)
(* The swarms of the external store and their branches.                    *)
(***************************************************************************)
\* swarms LoadSwarm knows
Swarms == {"sw-a", "sw-b"}
\* identifiers a caller may pass; "sw-x" names no swarm
SwarmIDs == Swarms \cup {"sw-x"}
\* worker branch names a caller may pass to MergeToIntegration;
\* "w9" exists neither locally nor on the remote
WorkerArgs == {"w1", "w9"}

Integration(s) == IF s = "sw-a" THEN "integ-a" ELSE "integ-b"
TargetBranch(s) == "main"
\* Task.Branch of every task of the swarm, in order; "" is a task without branch
Tasks(s) == IF s = "sw-a" THEN <<"w1", "">> ELSE <<>>

(***************************************************************************)
(* Error values.  A git failure is a SwarmGitError carrying the command    *)
(* and its stderr (a sequence of characters); NilErr is Go's nil.          *)
(***************************************************************************)
NilErr == [kind |-> "nil", Command |-> "", Stderr |-> <<>>]
SwarmGitError(command, stderr) == [kind |-> "git", Command |-> command, Stderr |-> stderr]
\* an error that is no SwarmGitError (errors.As fails); its text is not inspected
OtherError == [kind |-> "other", Command |-> "", Stderr |-> <<>>]

StderrNoRef == <<"f","a","t","a","l",":"," ","c","o","u","l","d","n","'","t"," ","f","i","n","d"," ","r","e","m","o","t","e"," ","r","e","f"," ","w","1">>
StderrHost == <<"f","a","t","a","l",":"," ","u","n","a","b","l","e"," ","t","o"," ","a","c","c","e","s","s",":"," ","C","o","u","l","d"," ","n","o","t"," ","r","e","s","o","l","v","e"," ","h","o","s","t">>

VARIABLES
  held,      \* set of <<caller, swarmID>>: the swarm locks currently held
  refs,      \* local branches of the shared checkout
  head,      \* the checked-out branch
  remote,    \* branches on origin
  unmerged,  \* number of unmerged paths in the working tree
  pc,        \* position of each caller in its current operation
  op,        \* the operation each caller last invoked
  sid,       \* its swarmID argument
  wbr,       \* its workerBranch argument (MergeToIntegration)
  res,       \* the value the operation returns
  i,         \* loop index (fetchWithRetry's i, CleanupBranches' task index)
  lastErr,   \* fetchWithRetry's lastErr
  mergeErr,  \* the err of the merge command while conflicts are inspected
  log,       \* git commands the invocation has issued (fetch attempts apart), with outcome
  attempts,  \* outcome of every fetch attempt of the running fetchWithRetry
  delays,    \* multipliers of fetchRetryDelay it has slept between attempts
  nUnlock,   \* number of Unlock calls of the current invocation
  changed,   \* whether a command of the invocation changed the repository
  existed,   \* whether the integration branch existed when the lock was taken
  calls,     \* number of invocations so far
  gpc,       \* position of each goroutine of the lock test
  gsid,      \* the swarm identifier it locks
  current,   \* the test's count of goroutines inside the lock, per swarm
  maxConcurrent, \* the largest value current has had, per swarm
  prev,      \* the invocation that returned last: operation, swarm, result, branches
  fresh,     \* whether the repository started without any integration branch
  createdOk, \* swarms for which a CreateIntegrationBranch has returned nil
  landedOk,  \* swarms for which a LandToMain has returned nil
  cerr,      \* the error isTransientFetchError is called with
  cres,      \* what the calls with it have returned so far
  bargs,     \* the arguments of two GetWorkerBranch calls
  bres,      \* what the calls have returned so far
  mergeAt,   \* the checkout (branch, unmerged paths) each caller's merge command ran on
  tasks,     \* the loaded swarm's tasks: the dependencies of each
  closed,    \* the tasks of the swarm that are complete
  query,     \* the last lookup of the swarm manager and what it returned
  prefixToRig, \* the prefix registry: prefix -> rig name
  rigToPrefix, \* the prefix registry: rig name -> prefix
  parsed,    \* the last ParseSessionName call: session, identity, error
  named      \* what SessionName returned for the parsed identity

git == <<refs, head, remote, unmerged>>
locals == <<i, lastErr, mergeErr>>
hist == <<log, attempts, delays, nUnlock, changed, existed>>
tvars == <<gpc, gsid, current, maxConcurrent>>
cvars == <<refs, head, remote, unmerged, pc, op, sid, wbr, res, i, lastErr,
           mergeErr, log, attempts, delays, nUnlock, changed, existed, calls>>
hvars == <<prev, fresh, createdOk, landedOk, mergeAt>>
fvars == <<cerr, cres>>
bvars == <<bargs, bres>>
svars == <<tasks, closed, query>>
rvars == <<prefixToRig, rigToPrefix, parsed, named>>
vars == <<held, cvars, tvars, hvars, fvars, bvars, svars, rvars>>

(***************************************************************************)
(* The git executable, as the controller sees it: every command yields a   *)
(* set of possible outcomes, each an exit status and the repository state  *)
(* it leaves.  Failures the repository state does not decide (network,     *)
(* dirty tree, bad base commit) are nondeterministic.                      *)
(***************************************************************************)
Out(ok, r, h, m, u) == [ok |-> ok, refs |-> r, head |-> h, remote |-> m, unmerged |-> u]
Failed == Out(FALSE, refs, head, remote, unmerged)
Unchanged == Out(TRUE, refs, head, remote, unmerged)

\* git show-ref --verify --quiet refs/heads/<b>
git_show_ref(b) == IF b \in refs THEN {Unchanged} ELSE {Failed}

\* git checkout -b <b> <base>
git_checkout_b(b) ==
  IF b \notin refs /\ unmerged = 0
    THEN {Out(TRUE, refs \cup {b}, b, remote, unmerged), Failed}
    ELSE {Failed}

\* git checkout <b>
git_checkout(b) ==
  IF b \in refs /\ unmerged = 0
    THEN {Out(TRUE, refs, b, remote, unmerged), Failed}
    ELSE {Failed}

\* git push [-u] origin <b>
git_push(b) ==
  IF b \in refs
    THEN {Out(TRUE, refs, head, remote \cup {b}, unmerged), Failed}
    ELSE {Failed}

\* git push origin --delete <b>
git_push_delete(b) ==
  IF b \in remote
    THEN {Out(TRUE, refs, head, remote \ {b}, unmerged), Failed}
    ELSE {Failed}

\* git branch -D <b>
git_branch_D(b) ==
  IF b \in refs /\ b # head
    THEN {Out(TRUE, refs \ {b}, head, remote, unmerged)}
    ELSE {Failed}

\* git merge --no-ff -m <msg> <b>: success, a conflict that leaves unmerged
\* paths, or a failure that leaves none; with unmerged paths already in the
\* index git refuses to merge and leaves them
git_merge(b) ==
  IF unmerged > 0 THEN {Failed}
  ELSE IF b \notin refs THEN {Failed}
  ELSE {Unchanged, Failed}
       \cup {Out(FALSE, refs, head, remote, u) : u \in 1..MaxUnmerged}

\* git merge --abort
git_merge_abort ==
  IF unmerged > 0 THEN {Out(TRUE, refs, head, remote, 0)} ELSE {Failed}

\* git fetch origin <b>: the stderr of a failed fetch, or <<>> on success
git_fetch(b) ==
  (IF b \in remote THEN {<<>>} ELSE {}) \cup {StderrNoRef, StderrHost}

(***************************************************************************)
(* gitRun: runs one git command as a step of caller p and records it.      *)
(***************************************************************************)
gitRun(p, cmd, arg, o) ==
  /\ refs' = o.refs
  /\ head' = o.head
  /\ remote' = o.remote
  /\ unmerged' = o.unmerged
  /\ log' = [log EXCEPT ![p] = Append(@, [cmd |-> cmd, arg |-> arg, ok |-> o.ok])]
  /\ changed' = [changed EXCEPT ![p] = @ \/ <<o.refs, o.head, o.remote, o.unmerged>> # git]

\* the step that ends the body of an operation with return value r
ret(p, r) ==
  /\ res' = [res EXCEPT ![p] = r]
  /\ pc' = [pc EXCEPT ![p] = "ret"]

goto(p, l) == pc' = [pc EXCEPT ![p] = l]

(***************************************************************************)
(* A caller invokes an operation.                                          *)
(***************************************************************************)
Ops == {"Create", "Merge", "Land", "Cleanup", "Abort"}
Locked == Ops \ {"Abort"}

Call(p) ==
  /\ pc[p] = "idle"
  /\ calls < MaxCalls
  /\ \E o \in Ops, s \in SwarmIDs, w \in WorkerArgs :
       /\ op' = [op EXCEPT ![p] = o]
       /\ sid' = [sid EXCEPT ![p] = IF o = "Abort" THEN "" ELSE s]
       /\ wbr' = [wbr EXCEPT ![p] = IF o = "Merge" THEN w ELSE ""]
       /\ pc' = [pc EXCEPT ![p] = IF o = "Abort" THEN "abort" ELSE "lock"]
  /\ nUnlock' = [nUnlock EXCEPT ![p] = 0]
  /\ calls' = calls + 1
  /\ UNCHANGED <<held, git, res, locals, log, attempts, delays, changed, existed>>

(***************************************************************************)
(* The per-swarm lock: a file lock on .swarm-locks/<swarmID>.lock.         *)
(***************************************************************************)
Free(s) == \A h \in held : h[2] # s

\* a lockSwarm that does not wait for the holder
lockSwarm_noWait(h, s) == held' = held \cup {<<h, s>>}

\* a lockSwarm on one lock file for the whole repository
lockSwarm_global(h, s) == held = {} /\ held' = held \cup {<<h, s>>}

\* lockSwarm(swarmID) by h blocks until the exclusive hold is obtained
lockSwarm(h, s) == Free(s) /\ held' = held \cup {<<h, s>>}

\* fl.Unlock()
flUnlock(h, s) == held' = held \ {<<h, s>>}

lockSwarmAcquire(p) ==
  /\ pc[p] = "lock"
  /\ lockSwarm(p, sid[p])
  /\ existed' = [existed EXCEPT ![p] = sid[p] \in Swarms /\ Integration(sid[p]) \in refs]
  /\ goto(p, "load")
  /\ UNCHANGED <<git, op, sid, wbr, res, locals, log, attempts, delays, nUnlock, changed, calls>>

\* a caller that drops the error of lockSwarm and goes on without the lock
lockSwarmFail_ignored(p) ==
  /\ pc[p] = "lock"
  /\ goto(p, "load")
  /\ UNCHANGED <<held, git, op, sid, wbr, res, locals, hist, calls>>

\* ... or the file operation fails: the operation returns the error at once,
\* before any Unlock is deferred
lockSwarmFail(p) ==
  /\ pc[p] = "lock"
  /\ res' = [res EXCEPT ![p] = "lock error"]
  /\ goto(p, "ret0")
  /\ UNCHANGED <<held, git, op, sid, wbr, locals, hist, calls>>

\* the deferred func() { _ = fl.Unlock() }()
Unlock(p) ==
  /\ flUnlock(p, sid[p])
  /\ nUnlock' = [nUnlock EXCEPT ![p] = @ + 1]

\* the arguments and locals of an invocation, and what was observed of it,
\* end with it
Forget(p) ==
  /\ op' = [op EXCEPT ![p] = "none"]
  /\ sid' = [sid EXCEPT ![p] = ""]
  /\ wbr' = [wbr EXCEPT ![p] = ""]
  /\ res' = [res EXCEPT ![p] = "pending"]
  /\ i' = [i EXCEPT ![p] = 0]
  /\ lastErr' = [lastErr EXCEPT ![p] = NilErr]
  /\ mergeErr' = [mergeErr EXCEPT ![p] = FALSE]
  /\ log' = [log EXCEPT ![p] = <<>>]
  /\ attempts' = [attempts EXCEPT ![p] = <<>>]
  /\ delays' = [delays EXCEPT ![p] = <<>>]
  /\ changed' = [changed EXCEPT ![p] = FALSE]
  /\ existed' = [existed EXCEPT ![p] = FALSE]

\* the deferred Unlock runs and the operation returns res[p]
Return(p) ==
  /\ pc[p] = "ret"
  /\ Unlock(p)
  /\ Forget(p)
  /\ goto(p, "idle")
  /\ UNCHANGED <<git, calls>>

\* an operation that deferred no Unlock returns res[p]: AbortMerge, and an
\* operation whose lockSwarm failed
ReturnNoDefer(p) ==
  /\ pc[p] = "ret0"
  /\ Forget(p)
  /\ goto(p, "idle")
  /\ UNCHANGED <<held, git, nUnlock, calls>>

\* LoadSwarm reads the swarm from the external store
LoadSwarmOk(s) == s \in Swarms

AfterLoad(o) ==
  CASE o = "Create" -> "c_exists"
    [] o = "Merge" -> "m_current"
    [] o = "Land" -> "l_checkout"
    [] o = "Cleanup" -> "k_local"

\* an operation that defers the Unlock only after LoadSwarm succeeded
LoadSwarm_leak(p) ==
  /\ pc[p] = "load"
  /\ IF LoadSwarmOk(sid[p])
       THEN /\ goto(p, AfterLoad(op[p]))
            /\ UNCHANGED res
       ELSE /\ res' = [res EXCEPT ![p] = "load error"]
            /\ goto(p, "ret0")
  /\ UNCHANGED <<held, git, op, sid, wbr, locals, hist, calls>>

LoadSwarm(p) ==
  /\ pc[p] = "load"
  /\ IF LoadSwarmOk(sid[p])
       THEN /\ goto(p, AfterLoad(op[p]))
            /\ UNCHANGED res
       ELSE ret(p, "load error")
  /\ UNCHANGED <<held, git, op, sid, wbr, locals, hist, calls>>

(***************************************************************************)
(* CreateIntegrationBranch                                                 *)
(***************************************************************************)
\* branchExists with the test of the exit status inverted
branchExists_inverted(o) == ~o.ok

\* branchExists: show-ref exits 0
branchExists(o) == o.ok

Create_exists(p) ==
  /\ pc[p] = "c_exists"
  /\ \E o \in git_show_ref(Integration(sid[p])) :
       /\ gitRun(p, "show-ref", Integration(sid[p]), o)
       /\ IF branchExists(o)
            THEN ret(p, "ErrBranchExists")
            ELSE goto(p, "c_checkout") /\ UNCHANGED res
  /\ UNCHANGED <<held, op, sid, wbr, locals, attempts, delays, nUnlock, existed, calls>>

Create_checkout(p) ==
  /\ pc[p] = "c_checkout"
  /\ \E o \in git_checkout_b(Integration(sid[p])) :
       /\ gitRun(p, "checkout -b", Integration(sid[p]), o)
       /\ IF o.ok
            THEN goto(p, "c_push") /\ UNCHANGED res
            ELSE ret(p, "creating branch: git")
  /\ UNCHANGED <<held, op, sid, wbr, locals, attempts, delays, nUnlock, existed, calls>>

\* a CreateIntegrationBranch that returns the failure of the push
Create_pushResult_fatal(ok) == IF ok THEN "nil" ELSE "pushing: git"

\* the result of CreateIntegrationBranch once the push has run
Create_pushResult(ok) == "nil"

Create_push(p) ==
  /\ pc[p] = "c_push"
  /\ \E o \in git_push(Integration(sid[p])) :
       /\ gitRun(p, "push -u", Integration(sid[p]), o)
       /\ ret(p, Create_pushResult(o.ok))
  /\ UNCHANGED <<held, op, sid, wbr, locals, attempts, delays, nUnlock, existed, calls>>

(***************************************************************************)
(* AbortMerge                                                              *)
(***************************************************************************)
AbortMerge(p) ==
  /\ pc[p] = "abort"
  /\ \E o \in git_merge_abort :
       /\ gitRun(p, "merge --abort", "", o)
       /\ res' = [res EXCEPT ![p] = IF o.ok THEN "nil" ELSE "git"]
  /\ goto(p, "ret0")
  /\ UNCHANGED <<held, op, sid, wbr, locals, attempts, delays, nUnlock, existed, calls>>

(***************************************************************************)
(* fetchWithRetry and isTransientFetchError                                *)
(***************************************************************************)
fetchRetries == 3

UpperCase == <<"A","B","C","D","E","F","G","H","I","J","K","L","M","N","O","P","Q","R","S","T","U","V","W","X","Y","Z">>
LowerCase == <<"a","b","c","d","e","f","g","h","i","j","k","l","m","n","o","p","q","r","s","t","u","v","w","x","y","z">>

ToLowerChar(c) ==
  IF \E k \in 1..26 : UpperCase[k] = c
    THEN LowerCase[CHOOSE k \in 1..26 : UpperCase[k] = c]
    ELSE c

\* a ToLower that leaves capitals
ToLower_identity(s) == s

\* strings.ToLower
ToLower(s) == [k \in 1..Len(s) |-> ToLowerChar(s[k])]

\* strings.Contains
Contains(s, pat) ==
  \E k \in 0..(Len(s) - Len(pat)) : \A j \in 1..Len(pat) : s[k + j] = pat[j]

permanentPatterns == <<
  <<"c","o","u","l","d","n","'","t"," ","f","i","n","d"," ","r","e","m","o","t","e"," ","r","e","f">>,
  <<"n","o","t"," ","f","o","u","n","d">>,
  <<"d","o","e","s"," ","n","o","t"," ","a","p","p","e","a","r"," ","t","o"," ","b","e"," ","a"," ","g","i","t"," ","r","e","p","o","s","i","t","o","r","y">>,
  <<"p","e","r","m","i","s","s","i","o","n"," ","d","e","n","i","e","d">>,
  <<"a","u","t","h","e","n","t","i","c","a","t","i","o","n"," ","f","a","i","l","e","d">> >>

\* a classifier that calls no failure transient
isTransientFetchError_never(err) == FALSE

\* a classifier that calls every failure transient
isTransientFetchError_always(err) == TRUE

isTransientFetchError(err) ==
  IF err.kind = "nil" THEN FALSE
  ELSE IF err.kind # "git" THEN TRUE
  ELSE ~ \E k \in 1..Len(permanentPatterns) :
           Contains(ToLower(err.Stderr), permanentPatterns[k])

\* the branch fetchWithRetry is called with
FetchBranch(p) == IF pc[p] = "m_fetch" THEN wbr[p] ELSE TargetBranch(sid[p])
\* a caller that returns when the fetch failed instead of merging
AfterFetch_fatal(p, err) ==
  IF err # NilErr THEN "ret" ELSE IF pc[p] = "m_fetch" THEN "m_merge" ELSE "l_merge"

\* both callers ignore the error fetchWithRetry returns and go on to merge
AfterFetch(p, err) == IF pc[p] = "m_fetch" THEN "m_merge" ELSE "l_merge"

\* one iteration of the loop of fetchWithRetry: an attempt, and the sleep
\* that follows it when another attempt is due
fetchWithRetry(p) ==
  /\ pc[p] \in {"m_fetch", "l_fetch"}
  /\ i[p] < fetchRetries
  /\ \E e \in git_fetch(FetchBranch(p)) :
       LET err == IF e = <<>> THEN NilErr ELSE SwarmGitError("fetch", e) IN
       /\ lastErr' = [lastErr EXCEPT ![p] = err]
       /\ attempts' = [attempts EXCEPT ![p] = Append(@, err)]
       /\ IF err = NilErr \/ ~isTransientFetchError(err)
            THEN /\ goto(p, AfterFetch(p, err))
                 /\ UNCHANGED <<i, delays>>
            ELSE /\ delays' = [delays EXCEPT ![p] =
                                 IF i[p] < fetchRetries - 1 THEN Append(@, i[p] + 1) ELSE @]
                 /\ i' = [i EXCEPT ![p] = @ + 1]
                 /\ goto(p, IF i[p] + 1 < fetchRetries THEN pc[p] ELSE AfterFetch(p, err))
  /\ UNCHANGED <<held, git, op, sid, wbr, res, mergeErr, log, nUnlock, changed, existed, calls>>

\* the caller of fetchWithRetry goes on: the loop's frame is gone, and the
\* caller keeps the error it returned (fetchErr, pullErr), which it ignores
fetchReturned(p) ==
  /\ i' = [i EXCEPT ![p] = 0]
  /\ attempts' = [attempts EXCEPT ![p] = <<>>]
  /\ delays' = [delays EXCEPT ![p] = <<>>]
  /\ UNCHANGED lastErr

(***************************************************************************)
(* MergeToIntegration                                                      *)
(***************************************************************************)
\* getCurrentBranch: git rev-parse --abbrev-ref HEAD; the branch, or an error
getCurrentBranch == {[err |-> FALSE, branch |-> head], [err |-> TRUE, branch |-> ""]}

\* getConflictingFiles: git diff --name-only --diff-filter=U; the number of
\* files listed, or an error
getConflictingFiles == {[err |-> FALSE, n |-> unmerged], [err |-> TRUE, n |-> 0]}

\* whether the working tree has unmerged paths, as recorded with a diff
TreeState == IF unmerged > 0 THEN "unmerged" ELSE "clean"

Merge_current(p) ==
  /\ pc[p] = "m_current"
  /\ \E c \in getCurrentBranch :
       /\ gitRun(p, "rev-parse", "HEAD", IF c.err THEN Failed ELSE Unchanged)
       /\ IF c.err THEN ret(p, "getting current branch: err")
          ELSE /\ goto(p, IF c.branch # Integration(sid[p]) THEN "m_checkout" ELSE "m_fetch")
               /\ UNCHANGED res
  /\ UNCHANGED <<held, op, sid, wbr, locals, attempts, delays, nUnlock, existed, calls>>

\* a MergeToIntegration that goes on when the checkout of the integration
\* branch failed
Merge_checkout_ignored(p) ==
  /\ pc[p] = "m_checkout"
  /\ \E o \in git_checkout(Integration(sid[p])) :
       gitRun(p, "checkout", Integration(sid[p]), o)
  /\ goto(p, "m_fetch")
  /\ UNCHANGED <<held, op, sid, wbr, res, locals, attempts, delays, nUnlock, existed, calls>>

Merge_checkout(p) ==
  /\ pc[p] = "m_checkout"
  /\ \E o \in git_checkout(Integration(sid[p])) :
       /\ gitRun(p, "checkout", Integration(sid[p]), o)
       /\ IF o.ok
            THEN goto(p, "m_fetch") /\ UNCHANGED res
            ELSE ret(p, "checking out integration: git")
  /\ UNCHANGED <<held, op, sid, wbr, locals, attempts, delays, nUnlock, existed, calls>>

Merge_merge(p) ==
  /\ pc[p] = "m_merge"
  /\ \E o \in git_merge(wbr[p]) :
       /\ gitRun(p, "merge", wbr[p], o)
       /\ IF o.ok
            THEN ret(p, "nil") /\ UNCHANGED mergeErr
            ELSE /\ mergeErr' = [mergeErr EXCEPT ![p] = TRUE]
                 /\ goto(p, "m_conflicts")
                 /\ UNCHANGED res
  /\ fetchReturned(p)
  /\ UNCHANGED <<held, op, sid, wbr, nUnlock, existed, calls>>

\* a conflict check with its two results exchanged
mergeFailure_swapped(c, wrapped) ==
  IF ~c.err /\ c.n > 0 THEN wrapped ELSE "git"

\* what a failed merge returns, given the answer of getConflictingFiles:
\* the merge error itself, or the error wrapped with the given prefix
mergeFailure(c, wrapped) ==
  IF ~c.err /\ c.n > 0 THEN "git" ELSE wrapped

Merge_conflicts(p) ==
  /\ pc[p] = "m_conflicts"
  /\ \E c \in getConflictingFiles :
       /\ gitRun(p, "diff", TreeState, IF c.err THEN Failed ELSE Unchanged)
       /\ ret(p, mergeFailure(c, "merging: git"))
  /\ UNCHANGED <<held, op, sid, wbr, locals, attempts, delays, nUnlock, existed, calls>>

(***************************************************************************)
(* LandToMain                                                              *)
(***************************************************************************)
Land_checkout(p) ==
  /\ pc[p] = "l_checkout"
  /\ \E o \in git_checkout(TargetBranch(sid[p])) :
       /\ gitRun(p, "checkout", TargetBranch(sid[p]), o)
       /\ IF o.ok
            THEN goto(p, "l_fetch") /\ UNCHANGED res
            ELSE ret(p, "checking out target: git")
  /\ UNCHANGED <<held, op, sid, wbr, locals, attempts, delays, nUnlock, existed, calls>>

Land_merge(p) ==
  /\ pc[p] = "l_merge"
  /\ \E o \in git_merge(Integration(sid[p])) :
       /\ gitRun(p, "merge", Integration(sid[p]), o)
       /\ IF o.ok
            THEN goto(p, "l_push") /\ UNCHANGED mergeErr
            ELSE /\ mergeErr' = [mergeErr EXCEPT ![p] = TRUE]
                 /\ goto(p, "l_conflicts")
  /\ fetchReturned(p)
  /\ UNCHANGED <<held, op, sid, wbr, res, nUnlock, existed, calls>>

Land_conflicts(p) ==
  /\ pc[p] = "l_conflicts"
  /\ \E c \in getConflictingFiles :
       /\ gitRun(p, "diff", TreeState, IF c.err THEN Failed ELSE Unchanged)
       /\ ret(p, mergeFailure(c, "merging to target: git"))
  /\ UNCHANGED <<held, op, sid, wbr, locals, attempts, delays, nUnlock, existed, calls>>

\* a LandToMain that ignores the failure of the push
Land_pushResult_ignored(ok) == "nil"

\* the result of LandToMain once the push has run
Land_pushResult(ok) == IF ok THEN "nil" ELSE "pushing: git"

Land_push(p) ==
  /\ pc[p] = "l_push"
  /\ \E o \in git_push(TargetBranch(sid[p])) :
       /\ gitRun(p, "push", TargetBranch(sid[p]), o)
       /\ ret(p, Land_pushResult(o.ok))
  /\ UNCHANGED <<held, op, sid, wbr, locals, attempts, delays, nUnlock, existed, calls>>

(***************************************************************************)
(* CleanupBranches                                                         *)
(***************************************************************************)
\* index of the first task at or after j that has a branch, 0 if there is none
NextTask(s, j) ==
  LET js == {k \in j..Len(Tasks(s)) : Tasks(s)[k] # ""} IN
  IF js = {} THEN 0 ELSE CHOOSE k \in js : \A l \in js : k <= l

\* go on with the deletions of the first task at or after j, or return lastErr
Cleanup_next(p, j) ==
  /\ i' = [i EXCEPT ![p] = NextTask(sid[p], j)]
  /\ goto(p, IF NextTask(sid[p], j) = 0 THEN "ret" ELSE "k_tlocal")

Cleanup_local(p) ==
  /\ pc[p] = "k_local"
  /\ \E o \in git_branch_D(Integration(sid[p])) :
       /\ gitRun(p, "branch -D", Integration(sid[p]), o)
       /\ res' = [res EXCEPT ![p] = IF o.ok THEN "nil" ELSE "git"]
  /\ goto(p, "k_remote")
  /\ UNCHANGED <<held, op, sid, wbr, locals, attempts, delays, nUnlock, existed, calls>>

\* a CleanupBranches that returns the failure of the remote deletion
Cleanup_remote_fatal(p) ==
  /\ pc[p] = "k_remote"
  /\ \E o \in git_push_delete(Integration(sid[p])) :
       /\ gitRun(p, "push --delete", Integration(sid[p]), o)
       /\ res' = [res EXCEPT ![p] = IF o.ok THEN @ ELSE "git"]
  /\ Cleanup_next(p, 1)
  /\ UNCHANGED <<held, op, sid, wbr, lastErr, mergeErr, attempts, delays, nUnlock, existed, calls>>

Cleanup_remote(p) ==
  /\ pc[p] = "k_remote"
  /\ \E o \in git_push_delete(Integration(sid[p])) :
       gitRun(p, "push --delete", Integration(sid[p]), o)
  /\ Cleanup_next(p, 1)
  /\ UNCHANGED <<held, op, sid, wbr, res, lastErr, mergeErr, attempts, delays, nUnlock, existed, calls>>

Cleanup_taskLocal(p) ==
  /\ pc[p] = "k_tlocal"
  /\ \E o \in git_branch_D(Tasks(sid[p])[i[p]]) :
       gitRun(p, "branch -D", Tasks(sid[p])[i[p]], o)
  /\ goto(p, "k_tremote")
  /\ UNCHANGED <<held, op, sid, wbr, res, locals, attempts, delays, nUnlock, existed, calls>>

Cleanup_taskRemote(p) ==
  /\ pc[p] = "k_tremote"
  /\ \E o \in git_push_delete(Tasks(sid[p])[i[p]]) :
       gitRun(p, "push --delete", Tasks(sid[p])[i[p]], o)
  /\ Cleanup_next(p, i[p] + 1)
  /\ UNCHANGED <<held, op, sid, wbr, res, lastErr, mergeErr, attempts, delays, nUnlock, existed, calls>>

(***************************************************************************)
(* The system: callers run operations concurrently, one step at a time.    *)
(***************************************************************************)
\* the callers before any invocation, on a repository in which the worker
\* branch exists and some integration branches may have been created
InitCallers ==
  /\ head = "main"
  /\ remote = {"main", "w1"}
  /\ unmerged = 0
  /\ pc = [p \in Callers |-> "idle"]
  /\ op = [p \in Callers |-> "none"]
  /\ sid = [p \in Callers |-> ""]
  /\ wbr = [p \in Callers |-> ""]
  /\ res = [p \in Callers |-> "pending"]
  /\ i = [p \in Callers |-> 0]
  /\ lastErr = [p \in Callers |-> NilErr]
  /\ mergeErr = [p \in Callers |-> FALSE]
  /\ log = [p \in Callers |-> <<>>]
  /\ attempts = [p \in Callers |-> <<>>]
  /\ delays = [p \in Callers |-> <<>>]
  /\ nUnlock = [p \in Callers |-> 0]
  /\ changed = [p \in Callers |-> FALSE]
  /\ existed = [p \in Callers |-> FALSE]
  /\ calls = 0

\* no goroutine of the lock test runs
NoLockTest ==
  /\ gpc = [g \in Goroutines |-> "done"]
  /\ gsid = [g \in Goroutines |-> "swarm-a"]
  /\ current = [s \in TestSwarms |-> 0]
  /\ maxConcurrent = [s \in TestSwarms |-> 0]

\* no invocation has returned yet
NoPrev == [op |-> "none", sid |-> "", res |-> "pending", refs |-> {}, remote |-> {}]

\* the returns of the invocations are not remembered
\* no merge command has run in the invocation
NoMerge == [head |-> "", unmerged |-> 0]

NoHistory ==
  /\ prev = NoPrev
  /\ fresh = FALSE
  /\ createdOk = {}
  /\ landedOk = {}
  /\ mergeAt = [p \in Callers |-> NoMerge]

\* no call of the pure functions
NoPureCalls ==
  /\ cerr = NilErr
  /\ cres = <<>>
  /\ bargs = <<>>
  /\ bres = <<>>

\* no lookup of the swarm manager
NoQuery == [fn |-> "none", id |-> "", err |-> "nil", ready |-> {}, complete |-> FALSE]

\* no swarm loaded for scheduling
NoScheduler ==
  /\ tasks = <<>>
  /\ closed = {}
  /\ query = NoQuery

\* no session name parsed
NoParse == [session |-> <<>>, err |-> "none", id |-> [Role |-> "", Rig |-> <<>>, Name |-> <<>>, Prefix |-> <<>>]]

\* the session package is not used: empty registry
NoSessions ==
  /\ prefixToRig = {}
  /\ rigToPrefix = {}
  /\ parsed = NoParse
  /\ named = <<>>

Init ==
  /\ held = {}
  /\ refs \in {{"main", "w1"} \cup I : I \in SUBSET {"integ-a", "integ-b"}}
  /\ InitCallers
  /\ NoLockTest
  /\ NoHistory
  /\ NoPureCalls
  /\ NoScheduler
  /\ NoSessions

Next ==
  \/ \E p \in Callers : Call(p) /\ UNCHANGED <<tvars, hvars, fvars, bvars, svars, rvars>>
  \/ \E p \in Callers : lockSwarmAcquire(p) /\ UNCHANGED <<tvars, hvars, fvars, bvars, svars, rvars>>
  \/ \E p \in Callers : lockSwarmFail(p) /\ UNCHANGED <<tvars, hvars, fvars, bvars, svars, rvars>>
  \/ \E p \in Callers : LoadSwarm(p) /\ UNCHANGED <<tvars, hvars, fvars, bvars, svars, rvars>>
  \/ \E p \in Callers : Return(p) /\ UNCHANGED <<tvars, hvars, fvars, bvars, svars, rvars>>
  \/ \E p \in Callers : ReturnNoDefer(p) /\ UNCHANGED <<tvars, hvars, fvars, bvars, svars, rvars>>
  \/ \E p \in Callers : Create_exists(p) /\ UNCHANGED <<tvars, hvars, fvars, bvars, svars, rvars>>
  \/ \E p \in Callers : Create_checkout(p) /\ UNCHANGED <<tvars, hvars, fvars, bvars, svars, rvars>>
  \/ \E p \in Callers : Create_push(p) /\ UNCHANGED <<tvars, hvars, fvars, bvars, svars, rvars>>
  \/ \E p \in Callers : fetchWithRetry(p) /\ UNCHANGED <<tvars, hvars, fvars, bvars, svars, rvars>>
  \/ \E p \in Callers : Merge_current(p) /\ UNCHANGED <<tvars, hvars, fvars, bvars, svars, rvars>>
  \/ \E p \in Callers : Merge_checkout(p) /\ UNCHANGED <<tvars, hvars, fvars, bvars, svars, rvars>>
  \/ \E p \in Callers : Merge_merge(p) /\ UNCHANGED <<tvars, hvars, fvars, bvars, svars, rvars>>
  \/ \E p \in Callers : Merge_conflicts(p) /\ UNCHANGED <<tvars, hvars, fvars, bvars, svars, rvars>>
  \/ \E p \in Callers : AbortMerge(p) /\ UNCHANGED <<tvars, hvars, fvars, bvars, svars, rvars>>
  \/ \E p \in Callers : Land_checkout(p) /\ UNCHANGED <<tvars, hvars, fvars, bvars, svars, rvars>>
  \/ \E p \in Callers : Land_merge(p) /\ UNCHANGED <<tvars, hvars, fvars, bvars, svars, rvars>>
  \/ \E p \in Callers : Land_conflicts(p) /\ UNCHANGED <<tvars, hvars, fvars, bvars, svars, rvars>>
  \/ \E p \in Callers : Land_push(p) /\ UNCHANGED <<tvars, hvars, fvars, bvars, svars, rvars>>
  \/ \E p \in Callers : Cleanup_local(p) /\ UNCHANGED <<tvars, hvars, fvars, bvars, svars, rvars>>
  \/ \E p \in Callers : Cleanup_remote(p) /\ UNCHANGED <<tvars, hvars, fvars, bvars, svars, rvars>>
  \/ \E p \in Callers : Cleanup_taskLocal(p) /\ UNCHANGED <<tvars, hvars, fvars, bvars, svars, rvars>>
  \/ \E p \in Callers : Cleanup_taskRemote(p) /\ UNCHANGED <<tvars, hvars, fvars, bvars, svars, rvars>>

Spec == Init /\ [][Next]_vars

(***************************************************************************)
(* The lock tests: goroutines that take the lock of a swarm, count         *)
(* themselves in and out, and release it.                                  *)
(***************************************************************************)
\* fl, err := m.lockSwarm(...) succeeds
T_lock(g) ==
  /\ gpc[g] = "go"
  /\ lockSwarm(g, gsid[g])
  /\ gpc' = [gpc EXCEPT ![g] = "locked"]
  /\ UNCHANGED <<gsid, current, maxConcurrent>>

\* ... or fails: t.Errorf and return
T_lockFail(g) ==
  /\ gpc[g] = "go"
  /\ gpc' = [gpc EXCEPT ![g] = "done"]
  /\ UNCHANGED <<held, gsid, current, maxConcurrent>>

\* current++; if current > maxConcurrent { maxConcurrent = current }
T_enter(g) ==
  /\ gpc[g] = "locked"
  /\ current' = [current EXCEPT ![gsid[g]] = @ + 1]
  /\ maxConcurrent' = [maxConcurrent EXCEPT ![gsid[g]] =
                         IF current[gsid[g]] + 1 > @ THEN current[gsid[g]] + 1 ELSE @]
  /\ gpc' = [gpc EXCEPT ![g] = "working"]
  /\ UNCHANGED <<held, gsid>>

\* current--
T_leave(g) ==
  /\ gpc[g] = "working"
  /\ current' = [current EXCEPT ![gsid[g]] = @ - 1]
  /\ gpc' = [gpc EXCEPT ![g] = "leaving"]
  /\ UNCHANGED <<held, gsid, maxConcurrent>>

\* _ = fl.Unlock()
T_unlock(g) ==
  /\ gpc[g] = "leaving"
  /\ flUnlock(g, gsid[g])
  /\ gpc' = [gpc EXCEPT ![g] = "done"]
  /\ UNCHANGED <<gsid, current, maxConcurrent>>

InitLock ==
  /\ held = {}
  /\ refs = {"main"}
  /\ InitCallers
  /\ gpc = [g \in Goroutines |-> "go"]
  /\ gsid \in [Goroutines -> TestSwarms]
  /\ current = [s \in TestSwarms |-> 0]
  /\ maxConcurrent = [s \in TestSwarms |-> 0]
  /\ NoHistory
  /\ NoPureCalls
  /\ NoScheduler
  /\ NoSessions

NextLock ==
  \/ \E g \in Goroutines : T_lock(g) /\ UNCHANGED <<cvars, hvars, fvars, bvars, svars, rvars>>
  \/ \E g \in Goroutines : T_lockFail(g) /\ UNCHANGED <<cvars, hvars, fvars, bvars, svars, rvars>>
  \/ \E g \in Goroutines : T_enter(g) /\ UNCHANGED <<cvars, hvars, fvars, bvars, svars, rvars>>
  \/ \E g \in Goroutines : T_leave(g) /\ UNCHANGED <<cvars, hvars, fvars, bvars, svars, rvars>>
  \/ \E g \in Goroutines : T_unlock(g) /\ UNCHANGED <<cvars, hvars, fvars, bvars, svars, rvars>>

SpecLock == InitLock /\ [][NextLock]_vars

(***************************************************************************)
(* One caller that invokes the operations one after the other, with what   *)
(* the invocations returned remembered.                                    *)
(***************************************************************************)
SeqCaller == "c1"

\* the return of an invocation is remembered
Track(p) ==
  /\ prev' = [op |-> op[p], sid |-> sid[p], res |-> res[p], refs |-> refs, remote |-> remote]
  /\ createdOk' = IF op[p] = "Create" /\ res[p] = "nil" THEN createdOk \cup {sid[p]} ELSE createdOk
  /\ landedOk' = IF op[p] = "Land" /\ res[p] = "nil" THEN landedOk \cup {sid[p]} ELSE landedOk
  /\ mergeAt' = [mergeAt EXCEPT ![p] = NoMerge]
  /\ UNCHANGED fresh

\* the checkout a merge command runs on is remembered until the invocation returns
TrackMerge(p) ==
  /\ mergeAt' = [mergeAt EXCEPT ![p] = [head |-> head, unmerged |-> unmerged]]
  /\ UNCHANGED <<prev, fresh, createdOk, landedOk>>

NextSeq ==
  \/ Call(SeqCaller) /\ UNCHANGED <<tvars, hvars, fvars, bvars, svars, rvars>>
  \/ lockSwarmAcquire(SeqCaller) /\ UNCHANGED <<tvars, hvars, fvars, bvars, svars, rvars>>
  \/ lockSwarmFail(SeqCaller) /\ UNCHANGED <<tvars, hvars, fvars, bvars, svars, rvars>>
  \/ LoadSwarm(SeqCaller) /\ UNCHANGED <<tvars, hvars, fvars, bvars, svars, rvars>>
  \/ Return(SeqCaller) /\ Track(SeqCaller) /\ UNCHANGED <<tvars, fvars, bvars, svars, rvars>>
  \/ ReturnNoDefer(SeqCaller) /\ Track(SeqCaller) /\ UNCHANGED <<tvars, fvars, bvars, svars, rvars>>
  \/ Create_exists(SeqCaller) /\ UNCHANGED <<tvars, hvars, fvars, bvars, svars, rvars>>
  \/ Create_checkout(SeqCaller) /\ UNCHANGED <<tvars, hvars, fvars, bvars, svars, rvars>>
  \/ Create_push(SeqCaller) /\ UNCHANGED <<tvars, hvars, fvars, bvars, svars, rvars>>
  \/ fetchWithRetry(SeqCaller) /\ UNCHANGED <<tvars, hvars, fvars, bvars, svars, rvars>>
  \/ Merge_current(SeqCaller) /\ UNCHANGED <<tvars, hvars, fvars, bvars, svars, rvars>>
  \/ Merge_checkout(SeqCaller) /\ UNCHANGED <<tvars, hvars, fvars, bvars, svars, rvars>>
  \/ Merge_merge(SeqCaller) /\ TrackMerge(SeqCaller) /\ UNCHANGED <<tvars, fvars, bvars, svars, rvars>>
  \/ Merge_conflicts(SeqCaller) /\ UNCHANGED <<tvars, hvars, fvars, bvars, svars, rvars>>
  \/ AbortMerge(SeqCaller) /\ UNCHANGED <<tvars, hvars, fvars, bvars, svars, rvars>>
  \/ Land_checkout(SeqCaller) /\ UNCHANGED <<tvars, hvars, fvars, bvars, svars, rvars>>
  \/ Land_merge(SeqCaller) /\ TrackMerge(SeqCaller) /\ UNCHANGED <<tvars, fvars, bvars, svars, rvars>>
  \/ Land_conflicts(SeqCaller) /\ UNCHANGED <<tvars, hvars, fvars, bvars, svars, rvars>>
  \/ Land_push(SeqCaller) /\ UNCHANGED <<tvars, hvars, fvars, bvars, svars, rvars>>
  \/ Cleanup_local(SeqCaller) /\ UNCHANGED <<tvars, hvars, fvars, bvars, svars, rvars>>
  \/ Cleanup_remote(SeqCaller) /\ UNCHANGED <<tvars, hvars, fvars, bvars, svars, rvars>>
  \/ Cleanup_taskLocal(SeqCaller) /\ UNCHANGED <<tvars, hvars, fvars, bvars, svars, rvars>>
  \/ Cleanup_taskRemote(SeqCaller) /\ UNCHANGED <<tvars, hvars, fvars, bvars, svars, rvars>>

InitSeq ==
  /\ held = {}
  /\ refs \in {{"main", "w1"} \cup I : I \in SUBSET {"integ-a", "integ-b"}}
  /\ InitCallers
  /\ NoLockTest
  /\ prev = NoPrev
  /\ fresh = (refs \cap {"integ-a", "integ-b"} = {})
  /\ createdOk = {}
  /\ landedOk = {}
  /\ mergeAt = [p \in Callers |-> NoMerge]
  /\ NoPureCalls
  /\ NoScheduler
  /\ NoSessions

SpecSeq == InitSeq /\ [][NextSeq]_vars

(***************************************************************************)
(* isTransientFetchError called on its own, with errors made of the        *)
(* messages of TestIsTransientFetchError in several spellings.             *)
(***************************************************************************)
ToUpperChar(c) ==
  IF \E k \in 1..26 : LowerCase[k] = c
    THEN UpperCase[CHOOSE k \in 1..26 : LowerCase[k] = c]
    ELSE c

\* a message in capitals, and with a capital first letter
Upper(s) == [k \in 1..Len(s) |-> ToUpperChar(s[k])]
Capital(s) == [k \in 1..Len(s) |-> IF k = 1 THEN ToUpperChar(s[k]) ELSE s[k]]

\* messages of failures that are no permanent ones, some of them close to one
OtherMessages == {
  <<>>,
  <<"u","n","a","b","l","e"," ","t","o"," ","a","c","c","e","s","s",":"," ","C","o","u","l","d"," ","n","o","t"," ","r","e","s","o","l","v","e"," ","h","o","s","t">>,
  <<"t","h","e"," ","r","e","m","o","t","e"," ","e","n","d"," ","h","u","n","g"," ","u","p"," ","u","n","e","x","p","e","c","t","e","d","l","y">>,
  <<"c","o","u","l","d"," ","n","o","t"," ","f","i","n","d"," ","r","e","m","o","t","e"," ","r","e","f">>,
  <<"p","e","r","m","i","s","s","i","o","n"," "," ","d","e","n","i","e","d">>,
  <<"n","o","t","f","o","u","n","d">> }

Messages ==
  {permanentPatterns[k] : k \in 1..Len(permanentPatterns)}
    \cup {Upper(permanentPatterns[k]) : k \in 1..Len(permanentPatterns)}
    \cup {Capital(permanentPatterns[k]) : k \in 1..Len(permanentPatterns)}
    \cup OtherMessages

Prefixes == {<<>>, <<"f","a","t","a","l",":"," ">>}
Suffixes == {<<>>, <<" ","(","p","u","b","l","i","c","k","e","y",")">>}

\* the errors the classifier is called with
FetchErrors ==
  {NilErr, OtherError}
    \cup {SwarmGitError("fetch", a \o m \o z) : a \in Prefixes, m \in Messages, z \in Suffixes}

InitClassify ==
  /\ held = {}
  /\ refs = {"main"}
  /\ InitCallers
  /\ NoLockTest
  /\ NoHistory
  /\ cerr \in FetchErrors
  /\ cres = <<>>
  /\ bargs = <<>>
  /\ bres = <<>>
  /\ NoScheduler
  /\ NoSessions

\* got := isTransientFetchError(tt.err)
Classify ==
  /\ Len(cres) < 2
  /\ cres' = Append(cres, isTransientFetchError(cerr))
  /\ UNCHANGED cerr

NextClassify == Classify /\ UNCHANGED <<held, cvars, tvars, hvars, bvars, svars, rvars>>

SpecClassify == InitClassify /\ [][NextClassify]_vars

(***************************************************************************)
(* GetWorkerBranch called twice, on any repository.                        *)
(***************************************************************************)
\* a GetWorkerBranch that puts the task before the worker
GetWorkerBranch_swapped(swarmID, worker, taskID) ==
  swarmID \o <<"/">> \o taskID \o <<"/">> \o worker

\* fmt.Sprintf("%s/%s/%s", swarmID, worker, taskID)
GetWorkerBranch(swarmID, worker, taskID) ==
  swarmID \o <<"/">> \o worker \o <<"/">> \o taskID

BranchSwarmIDs == {<<"s","w","-","1">>, <<"s","w","-","2">>}
Workers == {<<"T","o","a","s","t">>, <<"a">>, <<"a","/","b">>}
TaskIDs == {<<"t","a","s","k","-","1","2","3">>, <<"c">>, <<"b","/","c">>}
BranchArgs == BranchSwarmIDs \X Workers \X TaskIDs

InitBranch ==
  /\ held = {}
  /\ refs \in {{"main", "w1"} \cup I : I \in SUBSET {"integ-a", "integ-b"}}
  /\ InitCallers
  /\ NoLockTest
  /\ NoHistory
  /\ cerr = NilErr
  /\ cres = <<>>
  /\ bargs \in BranchArgs \X BranchArgs
  /\ bres = <<>>
  /\ NoScheduler
  /\ NoSessions

\* branch := m.GetWorkerBranch(...)
GetWorkerBranchCall ==
  /\ Len(bres) < 2
  /\ LET a == bargs[Len(bres) + 1] IN
       bres' = Append(bres, GetWorkerBranch(a[1], a[2], a[3]))
  /\ UNCHANGED <<bargs, held, cvars>>

NextBranch == GetWorkerBranchCall /\ UNCHANGED <<tvars, hvars, fvars, svars, rvars>>

SpecBranch == InitBranch /\ [][NextBranch]_vars

(***************************************************************************)
(* The scheduler: the lookups of the swarm manager over the task graph of  *)
(* a loaded swarm.  A task is numbered after the tasks it depends on, as   *)
(* the dependency graph is acyclic; tasks[t] is the set of tasks t depends *)
(* on.  The diamond of TestSwarmE2ELifecycle is A = 1, B = 2, C = 3,       *)
(* D = 4.                                                                  *)
(***************************************************************************)
NumTasks == 4

\* the identifiers looked up: the swarm of the store, and one it does not hold
LookupIDs == {"sw-a", "sw-x"}

RECURSIVE TaskGraphs(_)
\* the acyclic dependency graphs of n tasks
TaskGraphs(n) ==
  IF n = 0 THEN {<<>>}
  ELSE {Append(g, d) : g \in TaskGraphs(n - 1), d \in SUBSET (1..(n - 1))}

\* A; B, C after A; D after B and C
Diamond == <<{}, {1}, {1}, {2, 3}>>

\* ReadyTasks ignoring the dependencies
ReadyTasks_undone(ts, done) == {t \in DOMAIN ts : t \notin done}

\* ReadyTasks(swarm): the tasks not yet complete whose every dependency is complete
ReadyTasks(ts, done) ==
  {t \in DOMAIN ts : t \notin done /\ \A d \in ts[t] : d \in done}

\* IsComplete(swarm): every task is complete
IsComplete(ts, done) == \A t \in DOMAIN ts : t \in done

\* a lookup that takes a missing swarm for an empty one
Lookup_empty(fn, id) ==
  [fn |-> fn, id |-> id, err |-> "nil",
   ready |-> IF LoadSwarmOk(id) /\ fn = "GetReadyTasks" THEN ReadyTasks(tasks, closed) ELSE {},
   complete |-> IF LoadSwarmOk(id) /\ fn = "IsComplete" THEN IsComplete(tasks, closed) ELSE FALSE]

\* what m.LoadSwarm, m.GetSwarm, m.GetReadyTasks and m.IsComplete return for id
Lookup(fn, id) ==
  IF ~LoadSwarmOk(id)
    THEN [fn |-> fn, id |-> id,
          err |-> IF fn \in {"GetReadyTasks", "IsComplete"} THEN "ErrSwarmNotFound" ELSE "load error",
          ready |-> {}, complete |-> FALSE]
    ELSE [fn |-> fn, id |-> id, err |-> "nil",
          ready |-> IF fn = "GetReadyTasks" THEN ReadyTasks(tasks, closed) ELSE {},
          complete |-> IF fn = "IsComplete" THEN IsComplete(tasks, closed) ELSE FALSE]

\* _, err := m.LoadSwarm(id)
LoadSwarmCall(id) ==
  /\ query' = Lookup("LoadSwarm", id)
  /\ UNCHANGED <<tasks, closed>>

\* _, err := m.GetSwarm(id)
GetSwarmCall(id) ==
  /\ query' = Lookup("GetSwarm", id)
  /\ UNCHANGED <<tasks, closed>>

\* _, err := m.GetReadyTasks(id)
GetReadyTasksCall(id) ==
  /\ query' = Lookup("GetReadyTasks", id)
  /\ UNCHANGED <<tasks, closed>>

\* _, err := m.IsComplete(id)
IsCompleteCall(id) ==
  /\ query' = Lookup("IsComplete", id)
  /\ UNCHANGED <<tasks, closed>>

\* bd close <task>: the store marks a task complete
CloseTask(t) ==
  /\ t \in DOMAIN tasks
  /\ t \notin closed
  /\ closed' = closed \cup {t}
  /\ query' = NoQuery
  /\ UNCHANGED tasks

InitTasks ==
  /\ held = {}
  /\ refs = {"main"}
  /\ InitCallers
  /\ NoLockTest
  /\ NoHistory
  /\ NoPureCalls
  /\ tasks \in UNION {TaskGraphs(n) : n \in 1..NumTasks}
  /\ closed = {}
  /\ query = NoQuery
  /\ NoSessions

NextTasks ==
  \/ \E id \in LookupIDs : LoadSwarmCall(id) /\ UNCHANGED <<held, cvars, tvars, hvars, fvars, bvars, rvars>>
  \/ \E id \in LookupIDs : GetSwarmCall(id) /\ UNCHANGED <<held, cvars, tvars, hvars, fvars, bvars, rvars>>
  \/ \E id \in LookupIDs : GetReadyTasksCall(id) /\ UNCHANGED <<held, cvars, tvars, hvars, fvars, bvars, rvars>>
  \/ \E id \in LookupIDs : IsCompleteCall(id) /\ UNCHANGED <<held, cvars, tvars, hvars, fvars, bvars, rvars>>
  \/ \E t \in 1..NumTasks : CloseTask(t) /\ UNCHANGED <<held, cvars, tvars, hvars, fvars, bvars, rvars>>

SpecTasks == InitTasks /\ [][NextTasks]_vars

(***************************************************************************)
(* Two callers that merge and land the two swarms of one repository, with  *)
(* the checkout each merge command ran on remembered.                      *)
(***************************************************************************)
\* m.MergeToIntegration(swarmID, "w1") or m.LandToMain(swarmID) is invoked
CallMergeOrLand(p) ==
  /\ pc[p] = "idle"
  /\ calls < MaxCalls
  /\ \E o \in {"Merge", "Land"}, s \in Swarms :
       /\ op' = [op EXCEPT ![p] = o]
       /\ sid' = [sid EXCEPT ![p] = s]
       /\ wbr' = [wbr EXCEPT ![p] = IF o = "Merge" THEN "w1" ELSE ""]
       /\ pc' = [pc EXCEPT ![p] = "lock"]
  /\ nUnlock' = [nUnlock EXCEPT ![p] = 0]
  /\ calls' = calls + 1
  /\ UNCHANGED <<held, git, res, locals, log, attempts, delays, changed, existed>>

\* what was remembered of the merge command ends with the invocation
ForgetMerge(p) ==
  /\ mergeAt' = [mergeAt EXCEPT ![p] = NoMerge]
  /\ UNCHANGED <<prev, fresh, createdOk, landedOk>>

InitRace ==
  /\ held = {}
  /\ refs = {"main", "w1", "integ-a", "integ-b"}
  /\ InitCallers
  /\ NoLockTest
  /\ NoHistory
  /\ NoPureCalls
  /\ NoScheduler
  /\ NoSessions

NextRace ==
  \/ \E p \in Callers : CallMergeOrLand(p) /\ UNCHANGED <<tvars, hvars, fvars, bvars, svars, rvars>>
  \/ \E p \in Callers : lockSwarmAcquire(p) /\ UNCHANGED <<tvars, hvars, fvars, bvars, svars, rvars>>
  \/ \E p \in Callers : lockSwarmFail(p) /\ UNCHANGED <<tvars, hvars, fvars, bvars, svars, rvars>>
  \/ \E p \in Callers : LoadSwarm(p) /\ UNCHANGED <<tvars, hvars, fvars, bvars, svars, rvars>>
  \/ \E p \in Callers : Return(p) /\ ForgetMerge(p) /\ UNCHANGED <<tvars, fvars, bvars, svars, rvars>>
  \/ \E p \in Callers : ReturnNoDefer(p) /\ UNCHANGED <<tvars, hvars, fvars, bvars, svars, rvars>>
  \/ \E p \in Callers : fetchWithRetry(p) /\ UNCHANGED <<tvars, hvars, fvars, bvars, svars, rvars>>
  \/ \E p \in Callers : Merge_current(p) /\ UNCHANGED <<tvars, hvars, fvars, bvars, svars, rvars>>
  \/ \E p \in Callers : Merge_checkout(p) /\ UNCHANGED <<tvars, hvars, fvars, bvars, svars, rvars>>
  \/ \E p \in Callers : Merge_merge(p) /\ TrackMerge(p) /\ UNCHANGED <<tvars, fvars, bvars, svars, rvars>>
  \/ \E p \in Callers : Merge_conflicts(p) /\ UNCHANGED <<tvars, hvars, fvars, bvars, svars, rvars>>
  \/ \E p \in Callers : Land_checkout(p) /\ UNCHANGED <<tvars, hvars, fvars, bvars, svars, rvars>>
  \/ \E p \in Callers : Land_merge(p) /\ TrackMerge(p) /\ UNCHANGED <<tvars, fvars, bvars, svars, rvars>>
  \/ \E p \in Callers : Land_conflicts(p) /\ UNCHANGED <<tvars, hvars, fvars, bvars, svars, rvars>>
  \/ \E p \in Callers : Land_push(p) /\ UNCHANGED <<tvars, hvars, fvars, bvars, svars, rvars>>

SpecRace == InitRace /\ [][NextRace]_vars

(***************************************************************************)
(* Two callers that create the integration branch of one swarm on a        *)
(* repository that has none, with the returns remembered.                  *)
(***************************************************************************)
\* m.CreateIntegrationBranch("sw-a") is invoked
CallCreate(p) ==
  /\ pc[p] = "idle"
  /\ calls < MaxCalls
  /\ op' = [op EXCEPT ![p] = "Create"]
  /\ sid' = [sid EXCEPT ![p] = "sw-a"]
  /\ pc' = [pc EXCEPT ![p] = "lock"]
  /\ nUnlock' = [nUnlock EXCEPT ![p] = 0]
  /\ calls' = calls + 1
  /\ UNCHANGED <<held, git, wbr, res, locals, log, attempts, delays, changed, existed>>

InitCreate ==
  /\ held = {}
  /\ refs = {"main", "w1"}
  /\ InitCallers
  /\ NoLockTest
  /\ prev = NoPrev
  /\ fresh = TRUE
  /\ createdOk = {}
  /\ landedOk = {}
  /\ mergeAt = [p \in Callers |-> NoMerge]
  /\ NoPureCalls
  /\ NoScheduler
  /\ NoSessions

NextCreate ==
  \/ \E p \in Callers : CallCreate(p) /\ UNCHANGED <<tvars, hvars, fvars, bvars, svars, rvars>>
  \/ \E p \in Callers : lockSwarmAcquire(p) /\ UNCHANGED <<tvars, hvars, fvars, bvars, svars, rvars>>
  \/ \E p \in Callers : lockSwarmFail(p) /\ UNCHANGED <<tvars, hvars, fvars, bvars, svars, rvars>>
  \/ \E p \in Callers : LoadSwarm(p) /\ UNCHANGED <<tvars, hvars, fvars, bvars, svars, rvars>>
  \/ \E p \in Callers : Return(p) /\ Track(p) /\ UNCHANGED <<tvars, fvars, bvars, svars, rvars>>
  \/ \E p \in Callers : ReturnNoDefer(p) /\ Track(p) /\ UNCHANGED <<tvars, fvars, bvars, svars, rvars>>
  \/ \E p \in Callers : Create_exists(p) /\ UNCHANGED <<tvars, hvars, fvars, bvars, svars, rvars>>
  \/ \E p \in Callers : Create_checkout(p) /\ UNCHANGED <<tvars, hvars, fvars, bvars, svars, rvars>>
  \/ \E p \in Callers : Create_push(p) /\ UNCHANGED <<tvars, hvars, fvars, bvars, svars, rvars>>

SpecCreate == InitCreate /\ [][NextCreate]_vars

(***************************************************************************)
(* Package session: the prefix registry, ParseSessionName and SessionName. *)
(* Strings are sequences of characters; the registry maps are sets of      *)
(* <<key, value>> pairs with one pair per key.                             *)
(***************************************************************************)
\* AgentIdentity{Role, Rig, Name, Prefix}
AgentIdentity(role, rig, name, prefix) ==
  [Role |-> role, Rig |-> rig, Name |-> name, Prefix |-> prefix]

\* a nil *AgentIdentity
NilIdentity == AgentIdentity("", <<>>, <<>>, <<>>)

\* the prefix of the town-level session names
HQPrefix == <<"h","q","-">>

\* the rig names and prefixes RegisterRigPrefix is called with
Rigs == {<<"g","a","s","t","o","w","n">>, <<"b","e","a","d","s">>}
RigPrefixes == {<<"g","t">>, <<"g","t","-","x">>, <<"h","q">>, <<>>}

\* the session names ParseSessionName is called with
SessionSuffixes == {<<>>, <<"w","i","t","n","e","s","s">>, <<"r","e","f","i","n","e","r","y">>, <<"c","r","e","w","-">>, <<"c","r","e","w","-","m","a","x">>, <<"m","o","r","s","o","v">>}
Sessions ==
  {p \o <<"-">> \o s : p \in RigPrefixes \cup {<<"x","y","z">>}, s \in SessionSuffixes}
    \cup {<<>>, <<"h","q","-","m","a","y","o","r">>, <<"h","q","-","d","e","a","c","o","n">>, <<"h","q","-","b","o","o","t">>, <<"h","q","-","o","v","e","r","s","e","e","r">>}

\* m[k] = v on a Go map
MapSet(m, k, v) == {e \in m : e[1] # k} \cup {<<k, v>>}

\* v, ok := m[k]
MapHas(m, k) == \E e \in m : e[1] = k
MapGet(m, k) == (CHOOSE e \in m : e[1] = k)[2]

\* strings.HasPrefix, strings.TrimPrefix
HasPrefix(s, p) == Len(p) <= Len(s) /\ SubSeq(s, 1, Len(p)) = p
TrimPrefix(s, p) == IF HasPrefix(s, p) THEN SubSeq(s, Len(p) + 1, Len(s)) ELSE s

RegisterRigPrefix(rigName, prefix) ==
  /\ prefixToRig' = MapSet(prefixToRig, prefix, rigName)
  /\ rigToPrefix' = MapSet(rigToPrefix, rigName, prefix)
  /\ parsed' = NoParse
  /\ named' = <<>>

ClearPrefixRegistry ==
  /\ prefixToRig' = {}
  /\ rigToPrefix' = {}
  /\ parsed' = NoParse
  /\ named' = <<>>

PrefixForRig(rigName) ==
  IF MapHas(rigToPrefix, rigName) THEN MapGet(rigToPrefix, rigName) ELSE <<"g","t">>

RigForPrefix(prefix) ==
  IF MapHas(prefixToRig, prefix) THEN MapGet(prefixToRig, prefix) ELSE prefix

RECURSIVE Orders(_)
\* the orders in which a set of strings can be listed
Orders(K) ==
  IF K = {} THEN {<<>>}
  ELSE UNION {{<<k>> \o o : o \in Orders(K \ {k})} : k \in K}

\* RegisteredPrefixes without the sort: the keys in the order of the map iteration
RegisteredPrefixes_unsorted == Orders({e[1] : e \in prefixToRig})

\* the slices RegisteredPrefixes can return: the keys of prefixToRig, longest
\* first; the order of the map iteration and of sort.Slice among prefixes of
\* one length is not determined
RegisteredPrefixes ==
  {o \in Orders({e[1] : e \in prefixToRig}) :
     \A a, b \in 1..Len(o) : a < b => Len(o[a]) >= Len(o[b])}

parseRigSuffix(suffix, rigName, prefix) ==
  IF suffix = <<"w","i","t","n","e","s","s">>
    THEN [id |-> AgentIdentity("witness", rigName, <<>>, prefix), err |-> "nil"]
  ELSE IF suffix = <<"r","e","f","i","n","e","r","y">>
    THEN [id |-> AgentIdentity("refinery", rigName, <<>>, prefix), err |-> "nil"]
  ELSE IF HasPrefix(suffix, <<"c","r","e","w","-">>)
    THEN IF TrimPrefix(suffix, <<"c","r","e","w","-">>) = <<>>
           THEN [id |-> NilIdentity, err |-> "empty crew name"]
           ELSE [id |-> AgentIdentity("crew", rigName, TrimPrefix(suffix, <<"c","r","e","w","-">>), prefix),
                 err |-> "nil"]
  ELSE [id |-> AgentIdentity("polecat", rigName, suffix, prefix), err |-> "nil"]

\* ParseSessionName(session), prefixes being what RegisteredPrefixes returned
ParseSessionName(session, prefixes) ==
  IF HasPrefix(session, HQPrefix)
    THEN LET suffix == TrimPrefix(session, HQPrefix) IN
         IF suffix = <<"m","a","y","o","r">>
           THEN [id |-> AgentIdentity("mayor", <<>>, <<>>, <<"h","q">>), err |-> "nil"]
         ELSE IF suffix = <<"d","e","a","c","o","n">>
           THEN [id |-> AgentIdentity("deacon", <<>>, <<>>, <<"h","q">>), err |-> "nil"]
         ELSE IF suffix = <<"b","o","o","t">>
           THEN [id |-> AgentIdentity("deacon", <<>>, <<"b","o","o","t">>, <<"h","q">>), err |-> "nil"]
         ELSE IF suffix = <<"o","v","e","r","s","e","e","r">>
           THEN [id |-> AgentIdentity("", <<>>, <<>>, <<"h","q">>), err |-> "overseer is not an agent"]
         ELSE [id |-> NilIdentity, err |-> "unknown hq- role"]
    ELSE LET hits == {k \in 1..Len(prefixes) : HasPrefix(session, prefixes[k] \o <<"-">>)} IN
         IF hits = {}
           THEN [id |-> NilIdentity, err |-> "no registered prefix matches"]
           ELSE LET prefix == prefixes[CHOOSE k \in hits : \A j \in hits : k <= j]
                    suffix == TrimPrefix(session, prefix \o <<"-">>)
                IN IF suffix = <<>>
                     THEN [id |-> NilIdentity, err |-> "empty after prefix"]
                     ELSE parseRigSuffix(suffix, RigForPrefix(prefix), prefix)

\* the session names of the roles
MayorSessionName == HQPrefix \o <<"m","a","y","o","r">>
DeaconSessionName == HQPrefix \o <<"d","e","a","c","o","n">>
BootSessionName == HQPrefix \o <<"b","o","o","t">>
WitnessSessionName(prefix) == prefix \o <<"-","w","i","t","n","e","s","s">>
RefinerySessionName(prefix) == prefix \o <<"-","r","e","f","i","n","e","r","y">>
CrewSessionName(prefix, name) == prefix \o <<"-","c","r","e","w","-">> \o name
PolecatSessionName(prefix, name) == prefix \o <<"-">> \o name

\* (a *AgentIdentity) SessionName()
SessionName(a) ==
  LET prefix == IF a.Prefix = <<>> THEN PrefixForRig(a.Rig) ELSE a.Prefix IN
  CASE a.Role = "mayor" -> MayorSessionName
    [] a.Role = "deacon" -> IF a.Name = <<"b","o","o","t">> THEN BootSessionName ELSE DeaconSessionName
    [] a.Role = "witness" -> WitnessSessionName(prefix)
    [] a.Role = "refinery" -> RefinerySessionName(prefix)
    [] a.Role = "crew" -> CrewSessionName(prefix, a.Name)
    [] a.Role = "polecat" -> PolecatSessionName(prefix, a.Name)
    [] OTHER -> <<>>

\* identity, err := ParseSessionName(sess)
ParseSessionNameCall(session) ==
  /\ \E prefixes \in RegisteredPrefixes :
       LET r == ParseSessionName(session, prefixes) IN
         parsed' = [session |-> session, err |-> r.err, id |-> r.id]
  /\ named' = <<>>
  /\ UNCHANGED <<prefixToRig, rigToPrefix>>

\* got := identity.SessionName(), when the parse returned no error
SessionNameCall ==
  /\ parsed.err = "nil"
  /\ named = <<>>
  /\ named' = <<SessionName(parsed.id)>>
  /\ UNCHANGED <<prefixToRig, rigToPrefix, parsed>>

InitSession ==
  /\ held = {}
  /\ refs = {"main"}
  /\ InitCallers
  /\ NoLockTest
  /\ NoHistory
  /\ NoPureCalls
  /\ NoScheduler
  /\ NoSessions

NextSession ==
  \/ \E r \in Rigs, p \in RigPrefixes :
       RegisterRigPrefix(r, p) /\ UNCHANGED <<held, cvars, tvars, hvars, fvars, bvars, svars>>
  \/ ClearPrefixRegistry /\ UNCHANGED <<held, cvars, tvars, hvars, fvars, bvars, svars>>
  \/ \E s \in Sessions :
       ParseSessionNameCall(s) /\ UNCHANGED <<held, cvars, tvars, hvars, fvars, bvars, svars>>
  \/ SessionNameCall /\ UNCHANGED <<held, cvars, tvars, hvars, fvars, bvars, svars>>

SpecSession == InitSession /\ [][NextSession]_vars

(***************************************************************************)
(* Properties                                                              *)
(***************************************************************************)
Holders(s) == {h[1] : h \in {x \in held : x[2] = s}}

\* caller p issues a git command in this step
Issued(p) == Len(log'[p]) > Len(log[p]) \/ Len(attempts'[p]) > Len(attempts[p])

\* caller p is inside the body of a locking operation: lockSwarm has
\* returned the lock and the operation has not returned yet
InBody(p) == op[p] \in Locked /\ pc[p] \notin {"idle", "lock", "ret0"}

\* the entries of a log that ran command c
Cmds(l, c) == {k \in 1..Len(l) : l[k].cmd = c}

\* C1: however many goroutines contend for a swarm's lock, at most one holds
\* it in every reachable state, and the test's measured maximum of
\* simultaneous holders never exceeds 1.
C1_MutualExclusion ==
  \A s \in TestSwarms :
    Cardinality(Holders(s)) <= 1 /\ current[s] <= 1 /\ maxConcurrent[s] <= 1

\* C1 witness: every goroutine contends for the same swarm; one of them is
\* inside the lock, a second has been through it and a third is blocked.
C1_Witness ==
  \E g, h, k \in Goroutines :
    /\ \A x \in Goroutines : gsid[x] = gsid[g]
    /\ gpc[g] = "working" /\ gpc[h] = "done" /\ gpc[k] = "go"
    /\ maxConcurrent[gsid[g]] = 1

\* C2: a goroutine that acquires the lock of a swarm nobody holds can take
\* it at once, whatever locks of other swarms are held at that moment.
C2_DistinctSwarmsIndependent ==
  \A g \in Goroutines :
    (gpc[g] = "go" /\ Free(gsid[g])) => ENABLED T_lock(g)

\* C2 witness: the locks of the two swarms are held at the same time, and a
\* goroutine took the lock of one while the other was held.
C2_Witness ==
  \E g, h \in Goroutines :
    /\ gsid[g] = "swarm-a" /\ gsid[h] = "swarm-b"
    /\ <<g, "swarm-a">> \in held /\ <<h, "swarm-b">> \in held

\* C3: a caller that is not inside an operation holds no swarm lock, and the
\* return of an operation that acquired the lock releases it by exactly one
\* Unlock, on every exit path.
C3_ReleasedOnEveryExit ==
  /\ [](\A p \in Callers : pc[p] = "idle" => \A s \in SwarmIDs : <<p, s>> \notin held)
  /\ [][\A p \in Callers :
          (op[p] \in Locked /\ res[p] # "lock error" /\ pc[p] # "idle" /\ pc'[p] = "idle")
            => /\ <<p, sid[p]>> \in held
               /\ held' = held \ {<<p, sid[p]>>}
               /\ nUnlock[p] = 0 /\ nUnlock'[p] = 1]_vars

\* C3 witness: an operation that failed after taking the lock (BranchExists)
\* is about to return, still holding the lock.
C3_Witness ==
  \E p \in Callers :
    pc[p] = "ret" /\ res[p] = "ErrBranchExists" /\ <<p, sid[p]>> \in held

\* C4 as claimed: no git command of any operation, AbortMerge included, is
\* issued while the issuing caller holds no swarm lock.
C4_Claimed ==
  [][\A p \in Callers : Issued(p) => \E s \in SwarmIDs : <<p, s>> \in held]_vars

\* C4 amended: every git command of CreateIntegrationBranch,
\* MergeToIntegration, LandToMain and CleanupBranches is issued while the
\* caller holds the lock of the operation's swarm, and AbortMerge never
\* holds a lock.
C4_LockedOperations ==
  /\ [][\A p \in Callers :
          (Issued(p) /\ op[p] \in Locked)
            => <<p, sid[p]>> \in held /\ <<p, sid[p]>> \in held']_vars
  /\ [](\A p \in Callers : op[p] = "Abort" => \A s \in SwarmIDs : <<p, s>> \notin held)

\* C4 witness: a locking operation has issued git commands under its lock,
\* and an AbortMerge has issued its command.
C4_Witness ==
  \E p, q \in Callers :
    /\ op[p] \in Locked /\ Len(log[p]) > 1 /\ <<p, sid[p]>> \in held
    /\ op[q] = "Abort" /\ Len(log[q]) = 1

\* C5: two callers running locking operations on the same swarm are never
\* both inside the body (from LoadSwarm to the return) at once, so the steps
\* of the two operations do not interleave.
C5_Serialized ==
  \A p, q \in Callers :
    (p # q /\ InBody(p) /\ InBody(q)) => sid[p] # sid[q]

\* C5 witness: a MergeToIntegration has issued commands while a LandToMain
\* on the same swarm waits for the lock.
C5_Witness ==
  \E p, q \in Callers :
    /\ p # q /\ sid[p] = sid[q]
    /\ op[p] = "Merge" /\ Len(log[p]) > 1 /\ InBody(p)
    /\ op[q] = "Land" /\ pc[q] = "lock"

\* C6: CreateIntegrationBranch on a swarm whose integration branch exists
\* returns ErrBranchExists, has issued show-ref only, and none of its
\* commands changed the refs, the checked-out branch or the remote.
C6_BranchExistsNoMutation ==
  \A p \in Callers :
    (op[p] = "Create" /\ pc[p] = "ret" /\ existed[p])
      => /\ res[p] = "ErrBranchExists"
         /\ ~changed[p]
         /\ Len(log[p]) = 1 /\ log[p][1].cmd = "show-ref"

\* C6 witness: such a call is about to return ErrBranchExists.
C6_Witness ==
  \E p \in Callers :
    op[p] = "Create" /\ pc[p] = "ret" /\ existed[p] /\ res[p] = "ErrBranchExists"

\* C7: when the integration branch does not exist, CreateIntegrationBranch
\* returns nil iff checkout -b succeeded; after a failed checkout -b it
\* returns the error and pushes nothing; the push never changes the result.
C7_CreateResult ==
  \A p \in Callers :
    (op[p] = "Create" /\ pc[p] = "ret" /\ Len(log[p]) >= 2)
      => /\ log[p][2].cmd = "checkout -b"
         /\ (res[p] = "nil") <=> log[p][2].ok
         /\ ~log[p][2].ok => (res[p] = "creating branch: git" /\ Len(log[p]) = 2)
         /\ log[p][2].ok => (Len(log[p]) = 3 /\ log[p][3].cmd = "push -u")

\* C7 witness: the branch was created, the push failed, the call returns nil.
C7_Witness ==
  \E p \in Callers :
    /\ op[p] = "Create" /\ pc[p] = "ret" /\ Len(log[p]) = 3
    /\ ~log[p][3].ok /\ res[p] = "nil"

\* the value a failed merge is wrapped into by each operation
Wrapped(o) == IF o = "Merge" THEN "merging: git" ELSE "merging to target: git"

C9_FetchBestEffort ==
  \A p \in Callers :
    (op[p] = "Merge" /\ pc[p] = "ret"
       /\ res[p] \notin {"load error", "getting current branch: err",
                         "checking out integration: git"})
      => /\ Cardinality(Cmds(log[p], "merge")) = 1
         /\ \A k \in Cmds(log[p], "merge") :
              /\ (res[p] = "nil") <=> log[p][k].ok
              /\ ~log[p][k].ok => res[p] \in {"git", "merging: git"}

\* C9 witness: the fetch of a branch that is nowhere failed permanently and
\* the operation returns the failure of the merge.
C9_Witness ==
  \E p \in Callers :
    /\ op[p] = "Merge" /\ pc[p] = "ret" /\ wbr[p] = "w9"
    /\ lastErr[p] = SwarmGitError("fetch", StderrNoRef)
    /\ res[p] = "merging: git"

\* C10: LandToMain returns nil iff checkout, merge and push all succeeded;
\* a failed push is returned; the push runs only right after a successful
\* merge; the error of the fetch has no part in the result.
C10_LandResult ==
  \A p \in Callers :
    (op[p] = "Land" /\ pc[p] = "ret" /\ res[p] # "load error")
      => LET l == log[p] IN
         /\ (res[p] = "nil") <=>
              (Len(l) = 3 /\ l[1].cmd = "checkout" /\ l[1].ok
                 /\ l[2].cmd = "merge" /\ l[2].ok /\ l[3].cmd = "push" /\ l[3].ok)
         /\ \A k \in Cmds(l, "push") :
              /\ k > 1 /\ l[k - 1].cmd = "merge" /\ l[k - 1].ok
              /\ ~l[k].ok => res[p] = "pushing: git"

\* C10 witness: a landing whose fetch failed succeeds, and another one is
\* about to return the failure of its push.
C10_Witness ==
  \E p, q \in Callers :
    /\ op[p] = "Land" /\ pc[p] = "ret" /\ res[p] = "nil" /\ lastErr[p] # NilErr
    /\ op[q] = "Land" /\ pc[q] = "ret" /\ res[q] = "pushing: git"

\* the task branches CleanupBranches deletes, in order
TaskBranches(s) == SelectSeq(Tasks(s), LAMBDA b : b # "")

\* C11: a CleanupBranches that loaded its swarm has issued, in order, the
\* local and the remote deletion of the integration branch and the local and
\* the remote deletion of every task branch, whatever failed; it returns nil
\* iff the local deletion of the integration branch succeeded and that
\* failure otherwise.
C11_CleanupResult ==
  \A p \in Callers :
    (op[p] = "Cleanup" /\ pc[p] = "ret" /\ res[p] # "load error")
      => LET l == log[p]
             b == TaskBranches(sid[p]) IN
         /\ Len(l) = 2 + 2 * Len(b)
         /\ l[1].cmd = "branch -D" /\ l[1].arg = Integration(sid[p])
         /\ l[2].cmd = "push --delete" /\ l[2].arg = Integration(sid[p])
         /\ \A k \in 1..Len(b) :
              /\ l[2 * k + 1].cmd = "branch -D" /\ l[2 * k + 1].arg = b[k]
              /\ l[2 * k + 2].cmd = "push --delete" /\ l[2 * k + 2].arg = b[k]
         /\ (res[p] = "nil") <=> l[1].ok
         /\ ~l[1].ok => res[p] = "git"

\* C11 witness: one cleanup returns the failure of the local deletion of the
\* integration branch although both deletions of the worker branch
\* succeeded; another returns nil although its remote deletion failed.
C11_Witness ==
  \E p, q \in Callers :
    /\ op[p] = "Cleanup" /\ pc[p] = "ret" /\ res[p] = "git"
    /\ Len(log[p]) = 4 /\ log[p][3].ok /\ log[p][4].ok
    /\ op[q] = "Cleanup" /\ pc[q] = "ret" /\ res[q] = "nil"
    /\ Len(log[q]) = 2 /\ ~log[q][2].ok

\* the failure of a fetch with the given stderr
FetchError(stderr) == SwarmGitError("fetch", stderr)

\* every attempt so far failed with "Could not resolve host"
AllHost(p) ==
  \A k \in 1..Len(attempts[p]) : attempts[p][k] = FetchError(StderrHost)

\* C13: while every attempt fails with a transient error, fetchWithRetry goes
\* on (it is never blocked) for fewer than 3 attempts, sleeping 1x, 2x, ...
\* the base delay after them; it returns after exactly 3 attempts, having
\* slept 1x and 2x the base delay and not after the third, with the error of
\* the third attempt.
C13_RetryExhausted ==
  \A p \in Callers :
    /\ (pc[p] \in {"m_fetch", "l_fetch"} /\ AllHost(p))
         => /\ Len(attempts[p]) < 3
            /\ delays[p] = [k \in 1..Len(attempts[p]) |-> k]
            /\ ENABLED fetchWithRetry(p)
    /\ (pc[p] \in {"m_merge", "l_merge"} /\ AllHost(p))
         => /\ Len(attempts[p]) = 3
            /\ delays[p] = <<1, 2>>
            /\ lastErr[p] = attempts[p][3]

\* C13 witness: fetchWithRetry has returned after three failures to resolve
\* the host.
C13_Witness ==
  \E p \in Callers :
    pc[p] = "m_merge" /\ AllHost(p) /\ Len(attempts[p]) = 3

\* an attempt that succeeded, or failed with "couldn't find remote ref"
Final(e) == e = NilErr \/ e = FetchError(StderrNoRef)

\* C14: an attempt that succeeds or fails permanently is the last one:
\* fetchWithRetry has returned with its outcome (nil, or that error), no
\* attempt follows it, and the only delays are those after the attempts
\* before it; there are never more than 3 attempts.
C14_StopsEarly ==
  \A p \in Callers :
    /\ Len(attempts[p]) <= 3
    /\ \A k \in 1..Len(attempts[p]) :
         Final(attempts[p][k])
           => /\ k = Len(attempts[p])
              /\ pc[p] \in {"m_merge", "l_merge"}
              /\ lastErr[p] = attempts[p][k]
              /\ Len(delays[p]) = k - 1

\* C14 witness: one fetchWithRetry returned nil after a transient failure,
\* another returned a permanent failure after a transient one.
C14_Witness ==
  \E p, q \in Callers :
    /\ pc[p] = "m_merge" /\ attempts[p] = <<FetchError(StderrHost), NilErr>>
    /\ pc[q] = "l_merge"
    /\ attempts[q] = <<FetchError(StderrHost), FetchError(StderrNoRef)>>

\* C12 as claimed: a CleanupBranches that directly follows a CleanupBranches
\* of the same swarm that returned nil returns nil too and leaves the local
\* and the remote branches as the first one left them.
C12_Idempotent ==
  (op[SeqCaller] = "Cleanup" /\ pc[SeqCaller] = "ret"
     /\ prev.op = "Cleanup" /\ prev.sid = sid[SeqCaller] /\ prev.res = "nil")
    => /\ res[SeqCaller] = "nil"
       /\ refs = prev.refs
       /\ remote = prev.remote

\* C18: in an execution that starts without integration branches, a
\* MergeToIntegration or LandToMain returns nil only for a swarm for which a
\* CreateIntegrationBranch has returned nil before.
C18_CreationFirst ==
  \A p \in Callers :
    (fresh /\ op[p] \in {"Merge", "Land"} /\ pc[p] = "ret" /\ res[p] = "nil")
      => sid[p] \in createdOk

\* C18 witness: in such an execution a MergeToIntegration returns nil, while
\* the other swarm has not been created.
C18_Witness ==
  \E p \in Callers :
    /\ fresh /\ op[p] = "Merge" /\ pc[p] = "ret" /\ res[p] = "nil"
    /\ createdOk = {sid[p]}

\* C19 as claimed: no MergeToIntegration returns nil for a swarm for which a
\* LandToMain has returned nil.
C19_LandedTerminal ==
  \A p \in Callers :
    (op[p] = "Merge" /\ pc[p] = "ret" /\ res[p] = "nil") => sid[p] \notin landedOk

\* C20 as claimed: a CleanupBranches that directly follows a successful
\* CreateIntegrationBranch of the same swarm, or a MergeToIntegration of it
\* that ran its merge, returns nil and leaves no local integration branch.
C20_CleanedReachable ==
  (op[SeqCaller] = "Cleanup" /\ pc[SeqCaller] = "ret" /\ prev.sid = sid[SeqCaller]
     /\ \/ prev.op = "Create" /\ prev.res = "nil"
        \/ prev.op = "Merge" /\ prev.res \in {"nil", "git", "merging: git"})
    => /\ res[SeqCaller] = "nil"
       /\ Integration(sid[SeqCaller]) \notin refs

\* case-insensitive containment, letter by letter
ContainsFold(s, pat) ==
  \E k \in 0..(Len(s) - Len(pat)) : \A j \in 1..Len(pat) : ToLowerChar(s[k + j]) = pat[j]

\* C15: isTransientFetchError returns false for nil, false for a SwarmGitError
\* whose stderr contains one of the five permanent messages in any spelling
\* of capitals, and true for every other SwarmGitError and for an error that
\* is no SwarmGitError; it returns the same on every call.
C15_Classifier ==
  \A k \in 1..Len(cres) :
    cres[k] = (CASE cerr.kind = "nil" -> FALSE
                 [] cerr.kind = "other" -> TRUE
                 [] cerr.kind = "git" ->
                      ~ \E n \in 1..Len(permanentPatterns) :
                          ContainsFold(cerr.Stderr, permanentPatterns[n]))

\* C15 witness: "PERMISSION DENIED (publickey)" has been classified as not
\* transient.
C15_Witness ==
  /\ cerr = SwarmGitError("fetch", Upper(permanentPatterns[4]) \o <<" ","(","p","u","b","l","i","c","k","e","y",")">>)
  /\ cres = <<FALSE, FALSE>>

\* C16: every GetWorkerBranch call returns swarmID "/" worker "/" taskID of
\* its own arguments, whatever the repository and the calls before it; two
\* calls with the same arguments return the same; and a call changes nothing
\* of the repository, the locks or the callers.
C16_WorkerBranchPure ==
  /\ [](\A k \in 1..Len(bres) :
          /\ bres[k] = bargs[k][1] \o <<"/">> \o bargs[k][2] \o <<"/">> \o bargs[k][3]
          /\ \A j \in 1..Len(bres) : bargs[j] = bargs[k] => bres[j] = bres[k])
  /\ [][Len(bres') > Len(bres) => UNCHANGED <<held, cvars, bargs>>]_vars

\* C16 witness: GetWorkerBranch("sw-1", "Toast", "task-123") has returned
\* "sw-1/Toast/task-123" twice.
C16_Witness ==
  /\ Len(bres) = 2
  /\ bargs[1] = bargs[2]
  /\ bres[2] = <<"s","w","-","1","/","T","o","a","s","t","/","t","a","s","k","-","1","2","3">>

\* C17 as claimed: under one swarm identifier, two calls with different
\* (worker, task) pairs return different branch names.
C17_NoCollision ==
  (Len(bres) = 2 /\ bargs[1][1] = bargs[2][1]
     /\ <<bargs[1][2], bargs[1][3]>> # <<bargs[2][2], bargs[2][3]>>)
    => bres[1] # bres[2]

\* C21: a lookup of a swarm identifier that does not exist never returns an
\* empty result as if it were valid: GetReadyTasks and IsComplete fail with
\* ErrSwarmNotFound, LoadSwarm and GetSwarm return an error.
C21_NotFound ==
  (query.fn # "none" /\ query.id \notin Swarms) =>
     /\ query.err # "nil"
     /\ query.fn \in {"GetReadyTasks", "IsComplete"} => query.err = "ErrSwarmNotFound"

C21_Witness ==
  /\ query.fn = "GetReadyTasks"
  /\ query.id = "sw-x"
  /\ query.err = "ErrSwarmNotFound"
  /\ closed # {}

\* C22: ReadyTasks returns exactly the tasks that are not complete and whose
\* every dependency is complete, IsComplete is true iff every task is
\* complete; on the diamond the ready front is {A}, then {B, C} once A is
\* complete, then {D} once B and C are complete, and IsComplete stays false
\* until D is complete.
C22_ReadyFront ==
  /\ (query.fn = "GetReadyTasks" /\ query.err = "nil") =>
        /\ \A t \in 1..Len(tasks) :
             t \in query.ready <=> (t \notin closed /\ tasks[t] \subseteq closed)
        /\ query.ready \subseteq 1..Len(tasks)
        /\ tasks = Diamond =>
             /\ closed = {} => query.ready = {1}
             /\ closed = {1} => query.ready = {2, 3}
             /\ closed = {1, 2, 3} => query.ready = {4}
  /\ (query.fn = "IsComplete" /\ query.err = "nil") =>
        /\ query.complete <=> closed = 1..Len(tasks)
        /\ (tasks = Diamond /\ 4 \notin closed) => ~query.complete

C22_Witness ==
  /\ query.fn = "GetReadyTasks"
  /\ query.err = "nil"
  /\ tasks = Diamond
  /\ closed = {1}
  /\ query.ready = {2, 3}

\* the branch the merge command of p's operation is meant to run on
MergeTarget(p) ==
  IF op[p] = "Land" THEN TargetBranch(sid[p]) ELSE Integration(sid[p])

\* p's invocation found its branch checked out, or checked it out with
\* success, before its merge command
BranchEnsured(p) ==
  \E k \in 1..Len(log[p]) :
    /\ log[p][k].cmd = "merge"
    /\ k > 1
    /\ log[p][k - 1].ok
    /\ \/ op[p] = "Merge" /\ log[p][k - 1].cmd = "rev-parse"
       \/ log[p][k - 1] = [cmd |-> "checkout", arg |-> MergeTarget(p), ok |-> TRUE]

\* C23: the per-swarm lock does not keep operations on different swarms from
\* racing on the shared checkout.  A merge command of MergeToIntegration or
\* LandToMain can run while another branch than the one the call needs is
\* checked out (C23_Witness); when it does, the call had nevertheless found
\* or checked out its branch beforehand and holds its swarm's lock alone, and
\* it does not happen while a single invocation has been made.
C23_RaceAcrossSwarms ==
  \A p \in Callers :
    (mergeAt[p] # NoMerge /\ mergeAt[p].head # MergeTarget(p)) =>
       /\ BranchEnsured(p)
       /\ sid[p] \in Swarms
       /\ pc[p] # "idle" => Holders(sid[p]) = {p}
       /\ calls > 1

C23_Witness ==
  \E p \in Callers, q \in Callers :
    /\ op[p] = "Merge"
    /\ pc[p] \in {"ret", "m_conflicts"}
    /\ mergeAt[p].head # Integration(sid[p])
    /\ mergeAt[p].head # ""
    /\ BranchEnsured(p)
    /\ op[q] \in {"Merge", "Land"}
    /\ sid[q] \in Swarms \ {sid[p]}
    /\ pc[q] \in {"m_fetch", "m_merge", "l_fetch", "l_merge"}

\* C26: callers that invoke CreateIntegrationBranch concurrently for one
\* swarm whose integration branch does not exist: of the calls in which
\* neither the lock, the load nor the branch creation fails, the first to
\* return returns nil and every other returns ErrBranchExists, so that
\* exactly one succeeds; between a caller's existence check and its
\* creation no other caller is inside the operation and the branch still
\* does not exist.
C26_OneCreator ==
  \A p \in Callers :
    /\ (pc[p] = "ret" /\ res[p] \notin {"load error", "creating branch: git"}) =>
         \/ res[p] = "nil" /\ sid[p] \notin createdOk
         \/ res[p] = "ErrBranchExists" /\ sid[p] \in createdOk
    /\ pc[p] \in {"c_checkout", "c_push"} =>
         /\ \A q \in Callers \ {p} : ~InBody(q)
         /\ pc[p] = "c_checkout" => Integration(sid[p]) \notin refs

C26_Witness ==
  \E p \in Callers, q \in Callers :
    /\ p # q
    /\ pc[p] = "ret"
    /\ res[p] = "ErrBranchExists"
    /\ createdOk = {"sw-a"}
    /\ prev.op = "Create" /\ prev.res = "nil"
    /\ nUnlock[q] = 1
    /\ calls = 2

\* C27: when lockSwarm or LoadSwarm fails in CreateIntegrationBranch,
\* MergeToIntegration, LandToMain or CleanupBranches, the operation returns
\* that error without having issued any git command, the step that fails
\* leaves the checked-out branch, the local refs and the remote as they
\* were, and LoadSwarm is only ever called with the swarm's lock held.
C27_FailsBeforeGit ==
  /\ [](\A p \in Callers :
          /\ pc[p] = "load" => <<p, sid[p]>> \in held
          /\ (pc[p] = "ret0" /\ op[p] \in Locked) =>
               /\ res[p] = "lock error"
               /\ log[p] = <<>> /\ attempts[p] = <<>> /\ ~changed[p]
          /\ (op[p] \in Locked /\ sid[p] \notin Swarms /\ pc[p] \notin {"idle", "lock", "load"}) =>
               /\ pc[p] \in {"ret", "ret0"}
               /\ res[p] \in {"load error", "lock error"}
          /\ (pc[p] = "ret" /\ res[p] = "load error") =>
               log[p] = <<>> /\ attempts[p] = <<>> /\ ~changed[p])
  /\ [][\A p \in Callers :
          (pc[p] \in {"lock", "load"} /\ pc'[p] \in {"ret", "ret0"}) =>
             /\ UNCHANGED <<refs, head, remote, unmerged>>
             /\ res'[p] = IF pc[p] = "lock" THEN "lock error" ELSE "load error"]_vars

C27_Witness ==
  \E p \in Callers, q \in Callers :
    /\ op[p] = "Merge" /\ pc[p] = "ret" /\ res[p] = "load error"
    /\ log[p] = <<>>
    /\ <<p, sid[p]>> \in held
    /\ op[q] = "Cleanup" /\ pc[q] = "ret0" /\ res[q] = "lock error"
    /\ log[q] = <<>>

\* C28: MergeToIntegration returns the unwrapped git error only when the
\* merge attempted by that very call left the unmerged paths: when its merge
\* command ran, the tree had none.
C28_RealConflict ==
  \A p \in Callers :
    (op[p] = "Merge" /\ pc[p] = "ret" /\ res[p] = "git") => mergeAt[p].unmerged = 0

\* C24: session names round-trip: SessionName of the identity that
\* ParseSessionName returned without error for a session name gives that
\* session name back.
C24_RoundTrip ==
  named # <<>> => named[1] = parsed.session

\* the registered prefixes p such that s starts with "p-"
Matching(s) == {e[1] : e \in {x \in prefixToRig : HasPrefix(s, x[1] \o <<"-">>)}}

\* the longest of them
Longest(s) == CHOOSE p \in Matching(s) : \A q \in Matching(s) : Len(q) <= Len(p)

\* what follows "p-" in s for the longest of them
Remainder(s) == SubSeq(s, Len(Longest(s)) + 2, Len(s))

\* the rigs registered for a prefix
RigsOf(p) == {e[2] : e \in {x \in prefixToRig : x[1] = p}}

\* the town-level session names
TownSessions == {<<"h","q","-","m","a","y","o","r">>, <<"h","q","-","d","e","a","c","o","n">>, <<"h","q","-","b","o","o","t">>}

\* rest is "crew-<name>" with a non-empty name
IsCrew(rest) == HasPrefix(rest, <<"c","r","e","w","-">>) /\ Len(rest) > 5

\* the identity and error a rig session name s is resolved to by its longest
\* matching prefix; emptyCrew tells whether "crew-" without a name is an error
ByLongestPrefix(s, r, emptyCrew) ==
  IF Matching(s) = {} \/ Remainder(s) = <<>> \/ (emptyCrew /\ Remainder(s) = <<"c","r","e","w","-">>)
    THEN r.err # "nil"
    ELSE /\ r.err = "nil"
         /\ RigsOf(Longest(s)) = {r.id.Rig}
         /\ r.id.Prefix = Longest(s)
         /\ r.id.Role = (CASE Remainder(s) = <<"w","i","t","n","e","s","s">> -> "witness"
                           [] Remainder(s) = <<"r","e","f","i","n","e","r","y">> -> "refinery"
                           [] IsCrew(Remainder(s)) -> "crew"
                           [] OTHER -> "polecat")
         /\ r.id.Name = (CASE Remainder(s) = <<"w","i","t","n","e","s","s">> -> <<>>
                           [] Remainder(s) = <<"r","e","f","i","n","e","r","y">> -> <<>>
                           [] IsCrew(Remainder(s)) -> SubSeq(Remainder(s), 6, Len(Remainder(s)))
                           [] OTHER -> Remainder(s))

\* C25 as claimed: every name other than the three town-level names is
\* resolved by the longest registered prefix p such that the name starts
\* with "p-": the rig is the one registered for p, the remainder decides the
\* role (witness, refinery, crew-<name> with a non-empty name, otherwise a
\* polecat named by the whole remainder), and a name that matches no
\* registered prefix or has nothing after the prefix is an error.
C25_Claimed ==
  (parsed.err # "none" /\ parsed.session \notin TownSessions) =>
     ByLongestPrefix(parsed.session, parsed, FALSE)

\* C25: a name that starts with "hq-" is resolved as a town-level name
\* without the registry (hq-mayor, hq-deacon, hq-boot; any other is an
\* error); any other name is resolved by the longest registered prefix p
\* such that it starts with "p-": the rig is the one registered for p, the
\* remainder decides the role (witness, refinery, crew-<name> with a
\* non-empty name, "crew-" alone being an error, otherwise a polecat named
\* by the whole remainder); a name that matches no registered prefix, the
\* empty name and a name with nothing after the prefix are errors.  The
\* result depends on the registered prefixes and their rigs only, not on
\* the order they are listed or were registered in.
C25_LongestPrefix ==
  parsed.err # "none" =>
    IF HasPrefix(parsed.session, HQPrefix)
      THEN IF parsed.session \in TownSessions
             THEN /\ parsed.err = "nil"
                  /\ parsed.id.Rig = <<>>
                  /\ parsed.id.Role = (IF parsed.session = <<"h","q","-","m","a","y","o","r">> THEN "mayor" ELSE "deacon")
                  /\ parsed.id.Name = (IF parsed.session = <<"h","q","-","b","o","o","t">> THEN <<"b","o","o","t">> ELSE <<>>)
             ELSE parsed.err # "nil"
      ELSE ByLongestPrefix(parsed.session, parsed, TRUE)

C25_Witness ==
  /\ parsed.session = <<"g","t","-","x","-","w","i","t","n","e","s","s">>
  /\ <<<<"g","t">>, <<"g","a","s","t","o","w","n">>>> \in prefixToRig
  /\ <<<<"g","t","-","x">>, <<"b","e","a","d","s">>>> \in prefixToRig
  /\ parsed.err = "nil"
  /\ parsed.id = AgentIdentity("witness", <<"b","e","a","d","s">>, <<>>, <<"g","t","-","x">>)

\* C29: the registry is a consistent two-way mapping: for every rig r that
\* has a registered prefix RigForPrefix(PrefixForRig(r)) = r, and for every
\* registered prefix p PrefixForRig(RigForPrefix(p)) = p.
C29_TwoWay ==
  /\ \A e \in rigToPrefix : RigForPrefix(PrefixForRig(e[1])) = e[1]
  /\ \A e \in prefixToRig : PrefixForRig(RigForPrefix(e[1])) = e[1]

====
